---------------------------- MODULE Spec2Model ----------------------------
(***************************************************************************)
(* Model of the BTC/ETH volatility-modelling scripts.                      *)
(*                                                                         *)
(*   BTC/crypto_garch_analysis.py : download_prices, fit_models,           *)
(*        model_comparison_table, run_for_ticker and the driver main       *)
(*   resid_diagnostics.py         : the residual-ACF script                *)
(*                                                                         *)
(* The numerical libraries (yfinance, arch, statsmodels, matplotlib) are   *)
(* the environment: what they return or raise is drawn from bounded sets.  *)
(* Floating-point values are not computed.  A log return keeps the two     *)
(* prices it is the log ratio of, an information criterion is a small      *)
(* integer, and the content of a file is the piece of data it was          *)
(* rendered from.  A file write is atomic: it either raises and leaves no  *)
(* file, or stores the whole content.                                      *)
(***************************************************************************)
EXTENDS Integers, Sequences, FiniteSets, TLC

VARIABLES
    mode,       \* which script/harness is running: "garch", "resid", "loader", "select"
    tickers,    \* the TICKERS list the driver iterates over
    i,          \* index of the for loop of main (1-based)
    pc,         \* position inside main / run_for_ticker
    fetched,    \* the table returned by yf.download (input of download_prices)
    df,         \* local of run_for_ticker: the return series
    results,    \* local: dict name -> fitted result, in insertion order
    k,          \* position of the summary-writing loop in results
    cmp_table,  \* local: the sorted comparison table
    best_name,  \* local: name in the first row of cmp_table
    best_res,   \* local: the result whose std_resid is diagnosed
    err,        \* the exception in flight, caught by main
    fs,         \* the files under results/: path -> content
    out,        \* the lines printed to stdout ([Saved], [Error], [Done], banner)
    calls,      \* calls made to arch's fit during the current run, in order
    obs         \* what the environment returned to the current run (fits)

vars == <<mode, tickers, i, pc, fetched, df, results, k, cmp_table,
          best_name, best_res, err, fs, out, calls, obs>>

-----------------------------------------------------------------------------
(* Bounds of the model *)

MaxAIC == 2
SelMaxIC == 3
MaxRows == 3
MaxPrice == 2

-----------------------------------------------------------------------------
(* Settings: crypto_garch_analysis.py lines 19-31 *)

START_DATE == "2018-01-01"
END_DATE == "2024-12-31"
TICKERS == <<"BTC-USD", "ETH-USD">>
OUT_DIR == "results"
FIG_DIR == "results/figs"
LOG_DIR == "results/logs"

None == <<>>

Range(s) == {s[j] : j \in 1..Len(s)}

\* The lists main may be run on: every duplicate-free list over the tickers
\* of TICKERS (so a ticker may be absent from the list).
TickerLists ==
    LET U == Range(TICKERS)
    IN  {<<>>} \cup {<<a>> : a \in U}
               \cup {l \in {<<a, b>> : a \in U, b \in U} : l[1] # l[2]}

-----------------------------------------------------------------------------
(* Model names, as the character strings the code manipulates *)

GARCH == <<"G","A","R","C","H","(","1",",","1",")">>
EGARCH == <<"E">> \o GARCH
GJR == <<"G","J","R","-">> \o GARCH

\* The order in which fit_models fits (and inserts) the three specs.
FitOrder == <<GARCH, EGARCH, GJR>>

NotStripped(c) == c \notin {" ", "(", ")", "-"}

IsOrderChar(c) == c \in {"1", ","}

\* mutant: strips the letters too, so every model name gives the same text
safe_name_OrdersOnly(name) == SelectSeq(name, IsOrderChar)

\* name.replace(" ", "").replace("(", "").replace(")", "").replace("-", "")
safe_name(name) == SelectSeq(name, NotStripped)

\* best_name.replace(' ', '_')
underscored(name) == [j \in 1..Len(name) |-> IF name[j] = " " THEN "_" ELSE name[j]]

-----------------------------------------------------------------------------
(* Artifact paths: <<directory, ticker, rest of the file name>> *)

\* mutant: the file name lacks the ticker of the run (one shared file)
desc_path_Shared(t) == <<OUT_DIR, TICKERS[1], <<"_descriptive_and_JB.csv">>>>

desc_path(t) == <<OUT_DIR, t, <<"_descriptive_and_JB.csv">>>>
acf_path(t) == <<FIG_DIR, t, <<"_acf_squared.png">>>>
log_path(t, name) == <<LOG_DIR, t, <<"_">> \o safe_name(name) \o <<"_summary.txt">>>>
cmp_path(t) == <<OUT_DIR, t, <<"_model_comparison_AIC_BIC.csv">>>>
diag_path(t) == <<OUT_DIR, t, <<"_residual_diagnostics_best_model.csv">>>>
vol_path(t, name) == <<FIG_DIR, t, <<"_cond_vol_">> \o underscored(name) \o <<".png">>>>

PathTicker(p) == p[2]

-----------------------------------------------------------------------------
(* download_prices: crypto_garch_analysis.py lines 36-50 *)

\* A missing quote (numpy.nan) in a price column.  Present prices are 1..MaxPrice.
NaN == 0
\* An undefined log return.
NaNRet == <<>>

ColNames == {"Adj Close", "Close", "Volume"}

\* np.log(a / b): kept as the pair of prices; undefined when either is missing.
LogRatio(a, b) == IF a = NaN \/ b = NaN THEN NaNRet ELSE <<a, b>>

\* df.empty: no rows or no columns
IsEmpty(tbl) == tbl.n = 0 \/ tbl.cols = {}

\* mutant: prefers the raw close
price_col_CloseFirst(tbl) == IF "Close" \in tbl.cols THEN "Close" ELSE "Adj Close"

\* price_col = "Adj Close" if "Adj Close" in df.columns else "Close"
price_col(tbl) == IF "Adj Close" \in tbl.cols THEN "Adj Close" ELSE "Close"

Column(tbl, c) == IF c = "Adj Close" THEN tbl.adj ELSE tbl.close

\* mutant: shift(-1), the next row's price
Shift1_Forward(price, j) == IF j = Len(price) THEN NaN ELSE price[j + 1]

\* df["Price"].shift(1): the previous row's price, missing on the first row
Shift1(price, j) == IF j = 1 THEN NaN ELSE price[j - 1]

\* df[[price_col]].rename(...); df["LogReturn"] = np.log(Price / Price.shift(1))
WithLogReturn(price) ==
    [j \in 1..Len(price) |->
        [date |-> j, Price |-> price[j],
         LogReturn |-> LogRatio(price[j], Shift1(price, j))]]

RowComplete(r) == r.Price # NaN /\ r.LogReturn # NaNRet

\* df.dropna(inplace=True): rows with a missing value in any column go
DropNa(rows) == SelectSeq(rows, RowComplete)

EmptyError(ticker) ==
    [type |-> "RuntimeError",
     text |-> "Downloaded dataframe for {ticker} is empty. Check ticker or date range.",
     args |-> {ticker}]

ColumnError(tbl) ==
    [type |-> "KeyError",
     text |-> "Neither 'Adj Close' nor 'Close' found in columns: {columns}",
     args |-> tbl.cols]

download_prices(ticker, tbl) ==
    IF IsEmpty(tbl)
    THEN [ok |-> FALSE, err |-> EmptyError(ticker)]
    ELSE IF price_col(tbl) \notin tbl.cols
    THEN [ok |-> FALSE, err |-> ColumnError(tbl)]
    ELSE [ok |-> TRUE, df |-> DropNa(WithLogReturn(Column(tbl, price_col(tbl))))]

\* The price series a column may hold: up to MaxRows quotes, each present
\* (1..MaxPrice) or missing.  A column that is not in the table carries a
\* filler that nothing reads.
PriceSeqs(n) == [1..n -> 0..MaxPrice]
Filler(n) == [j \in 1..n |-> 1]

Table(cs, n, a, c) == [cols |-> cs, n |-> n, adj |-> a, close |-> c]

-----------------------------------------------------------------------------
(* model_comparison_table: crypto_garch_analysis.py lines 80-89 *)

\* results[name] = res on an insertion-ordered dict
DictSet(d, name, res) ==
    IF \E j \in 1..Len(d) : d[j].name = name
    THEN [j \in 1..Len(d) |-> IF d[j].name = name THEN [name |-> name, res |-> res] ELSE d[j]]
    ELSE Append(d, [name |-> name, res |-> res])

\* results[name]
DictGet(d, name) == (CHOOSE e \in Range(d) : e.name = name).res

Row(e) == [Model |-> e.name, AIC |-> e.res.aic, BIC |-> e.res.bic]

\* the loop of lines 82-88: one row per item, in dict order
Rows(d) == [j \in 1..Len(d) |-> Row(d[j])]

\* mutant: sort_values("AIC"), the BIC is not a key
RowLeq_AicOnly(a, b) == a.AIC <= b.AIC

\* the sort key of sort_values(["AIC","BIC"]): AIC first, then BIC
RowLeq(a, b) == a.AIC < b.AIC \/ (a.AIC = b.AIC /\ a.BIC <= b.BIC)

\* stable insertion of row r into the sorted sequence s (after its equals)
RECURSIVE InsertRow(_, _)
InsertRow(s, r) ==
    IF s = <<>> THEN <<r>>
    ELSE IF RowLeq(s[1], r) THEN <<s[1]>> \o InsertRow(Tail(s), r)
    ELSE <<r>> \o s

\* DataFrame.sort_values on several keys is a stable sort
RECURSIVE SortRows(_)
SortRows(rows) ==
    IF rows = <<>> THEN <<>>
    ELSE InsertRow(SortRows(SubSeq(rows, 1, Len(rows) - 1)), rows[Len(rows)])

model_comparison_table(d) == SortRows(Rows(d))

-----------------------------------------------------------------------------
(* The environment of one run *)

\* The orders <<p, o, q>> each spec is built with (the arch_model calls of
\* lines 64, 69 and 74; o is 0 where it is not passed).
Orders(name) ==
    IF name = GJR THEN <<1, 1, 1>> ELSE <<1, 0, 1>>

\* The number of estimated parameters: the mean, the variance intercept and
\* one coefficient per lag.
NParams(name) == 2 + Orders(name)[1] + Orders(name)[2] + Orders(name)[3]

\* What arch's fit returns when it returns: the fitted result of one model.
\* On one series BIC - AIC = k (ln n - 2) grows with the number of parameters
\* k alone; the factor is taken as the unit.  conv = FALSE is a result whose
\* optimizer did not converge: fit() only emits a ConvergenceWarning for it,
\* which line 2 of the script silences.
FitResults(name) ==
    {[model |-> name, aic |-> a, bic |-> a + NParams(name), conv |-> c] :
        a \in 1..MaxAIC, c \in BOOLEAN}

\* What a library call raises when it raises (no ticker, no model name in it).
LibError == [type |-> "Exception", text |-> "raised by the library", args |-> {}]

\* The tables the driver's runs are fed: an empty one, one without a price
\* column, one with the raw close only, one with both price columns.
DriverTables ==
    {Table({"Close"}, 0, <<>>, <<>>),
     Table({"Volume"}, 2, Filler(2), Filler(2)),
     Table({"Close", "Volume"}, 2, Filler(2), <<1, 2>>),
     Table({"Adj Close", "Close"}, 2, <<1, 2>>, <<2, 1>>)}

-----------------------------------------------------------------------------
(* Files and stdout *)

File(p, kind, data) == [path |-> p, kind |-> kind, data |-> data]

\* open(path, "w") / to_csv / savefig: create or replace the file at p
Write(files, f) == {g \in files : g.path # f.path} \cup {f}

Paths(files) == {f.path : f \in files}

Line(tag, t, what) == [tag |-> tag, ticker |-> t, what |-> what]

\* print(f"[Saved] {path}")
Saved(t, p) == Line("Saved", t, p)

-----------------------------------------------------------------------------
(* main and run_for_ticker: crypto_garch_analysis.py lines 146-212 *)

\* the ticker of the current iteration of main's loop
T == tickers[i]

Running == mode = "garch" /\ pc \notin {"main", "exit"}

NoLocals ==
    /\ df' = None
    /\ results' = <<>>
    /\ k' = 0
    /\ cmp_table' = <<>>
    /\ best_name' = None
    /\ best_res' = None

\* an exception leaves run_for_ticker: main's handler is next.  The traceback
\* keeps the line and the loop position (k) where it was raised.
Raise(e, at) ==
    /\ pc' = "except"
    /\ err' = [type |-> e.type, text |-> e.text, args |-> e.args, at |-> at]
    /\ df' = None
    /\ results' = <<>>
    /\ cmp_table' = <<>>
    /\ best_name' = None
    /\ best_res' = None
    /\ UNCHANGED k

\* a step that writes one artifact and prints its [Saved] line
Emit(f) ==
    /\ fs' = Write(fs, f)
    /\ out' = Append(out, Saved(T, f.path))

Init ==
    /\ mode = "garch"
    /\ tickers \in TickerLists
    /\ i = 1
    /\ pc = "main"
    /\ fetched = None
    /\ df = None
    /\ results = <<>>
    /\ k = 0
    /\ cmp_table = <<>>
    /\ best_name = None
    /\ best_res = None
    /\ err = None
    /\ fs = {}
    /\ out = <<>>
    /\ calls = <<>>
    /\ obs = <<>>

\* lines 208-210, 147-149: the loop calls run_for_ticker(t), which prints its banner
MainNext ==
    /\ mode = "garch" /\ pc = "main" /\ i <= Len(tickers)
    /\ pc' = "load"
    /\ out' = Append(out, Line("Ticker", T, None))
    /\ UNCHANGED <<mode, tickers, i, fetched, df, results, k, cmp_table,
                   best_name, best_res, err, fs, calls, obs>>

\* line 151
Load ==
    /\ mode = "garch" /\ pc = "load"
    /\ \E tbl \in DriverTables :
         LET r == download_prices(T, tbl)
         IN  \/ /\ r.ok
                /\ df' = r.df
                /\ pc' = "desc"
                /\ UNCHANGED <<results, k, cmp_table, best_name, best_res, err>>
             \/ /\ ~r.ok
                /\ Raise(r.err, "load")
    /\ UNCHANGED <<mode, tickers, i, fetched, fs, out, calls, obs>>

\* lines 154-161
Desc ==
    /\ mode = "garch" /\ pc = "desc"
    /\ \/ /\ Emit(File(desc_path(T), "desc", <<>>))
          /\ pc' = "acf"
          /\ UNCHANGED <<df, results, k, cmp_table, best_name, best_res, err>>
       \/ /\ Raise(LibError, "desc")
          /\ UNCHANGED <<fs, out>>
    /\ UNCHANGED <<mode, tickers, i, fetched, calls, obs>>

\* line 163
Acf ==
    /\ mode = "garch" /\ pc = "acf"
    /\ \/ /\ Emit(File(acf_path(T), "acf", <<>>))
          /\ pc' = "fit1"
          /\ UNCHANGED <<df, results, k, cmp_table, best_name, best_res, err>>
       \/ /\ Raise(LibError, "acf")
          /\ UNCHANGED <<fs, out>>
    /\ UNCHANGED <<mode, tickers, i, fetched, calls, obs>>

\* one am.fit(disp="off") of fit_models and the store of its result; the first
\* one starts from the fresh dict of line 62
FitStep(name, here, next, dict) ==
    /\ mode = "garch" /\ pc = here
    /\ calls' = Append(calls, name)
    /\ \/ \E res \in FitResults(name) :
            /\ results' = DictSet(dict, name, res)
            /\ obs' = Append(obs, res)
            /\ pc' = next
            /\ k' = IF next = "summ" THEN 1 ELSE k
            /\ UNCHANGED <<df, cmp_table, best_name, best_res, err>>
       \/ /\ Raise(LibError, "fit")
          /\ UNCHANGED obs
    /\ UNCHANGED <<mode, tickers, i, fetched, fs, out>>

\* lines 62-66
FitGARCH == FitStep(GARCH, "fit1", "fit2", <<>>)

\* lines 69-71
FitEGARCH == FitStep(EGARCH, "fit2", "fit3", results)

\* lines 74-78, 166
FitGJR == FitStep(GJR, "fit3", "summ", results)

\* lines 168-174: one iteration of the summary loop
Summ ==
    /\ mode = "garch" /\ pc = "summ"
    /\ \/ /\ Emit(File(log_path(T, results[k].name), "summary", <<results[k].res.model>>))
          /\ k' = k + 1
          /\ pc' = IF k = Len(results) THEN "cmp" ELSE "summ"
          /\ UNCHANGED <<df, results, cmp_table, best_name, best_res, err>>
       \/ /\ Raise(LibError, "summ")
          /\ UNCHANGED <<fs, out>>
    /\ UNCHANGED <<mode, tickers, i, fetched, calls, obs>>

\* the Model column of a table
ModelColumn(tbl) == [j \in 1..Len(tbl) |-> tbl[j].Model]

\* mutant: a write that fails leaves the file it had begun
Cmp_PartialWrite ==
    /\ mode = "garch" /\ pc = "cmp"
    /\ \/ /\ cmp_table' = model_comparison_table(results)
          /\ Emit(File(cmp_path(T), "cmp", ModelColumn(cmp_table')))
          /\ pc' = "diag"
          /\ UNCHANGED <<df, results, k, best_name, best_res, err>>
       \/ /\ Raise(LibError, "cmp")
          /\ fs' = Write(fs, File(cmp_path(T), "cmp", <<>>))
          /\ UNCHANGED out
    /\ UNCHANGED <<mode, tickers, i, fetched, calls, obs>>

\* lines 177-189
Cmp ==
    /\ mode = "garch" /\ pc = "cmp"
    /\ \/ /\ cmp_table' = model_comparison_table(results)
          /\ Emit(File(cmp_path(T), "cmp", ModelColumn(cmp_table')))
          /\ pc' = "diag"
          /\ UNCHANGED <<df, results, k, best_name, best_res, err>>
       \/ /\ Raise(LibError, "cmp")
          /\ UNCHANGED <<fs, out>>
    /\ UNCHANGED <<mode, tickers, i, fetched, calls, obs>>

\* lines 192-200
Diag ==
    /\ mode = "garch" /\ pc = "diag"
    /\ LET name == cmp_table[1].Model
           res == DictGet(results, name)
       IN  \/ /\ best_name' = name
              /\ best_res' = res
              /\ Emit(File(diag_path(T), "diag", <<res.model>>))
              /\ pc' = "vol"
              /\ UNCHANGED <<df, results, k, cmp_table, err>>
           \/ /\ Raise(LibError, "diag")
              /\ UNCHANGED <<fs, out>>
    /\ UNCHANGED <<mode, tickers, i, fetched, calls, obs>>

\* line 203
Vol ==
    /\ mode = "garch" /\ pc = "vol"
    /\ \/ /\ Emit(File(vol_path(T, best_name), "vol", <<best_res.model>>))
          /\ pc' = "done"
          /\ UNCHANGED <<df, results, k, cmp_table, best_name, best_res, err>>
       \/ /\ Raise(LibError, "vol")
          /\ UNCHANGED <<fs, out>>
    /\ UNCHANGED <<mode, tickers, i, fetched, calls, obs>>

\* line 205 and the return to main's loop
Done ==
    /\ mode = "garch" /\ pc = "done"
    /\ out' = Append(out, Line("Done", T, None))
    /\ NoLocals
    /\ calls' = <<>>
    /\ obs' = <<>>
    /\ i' = i + 1
    /\ pc' = "main"
    /\ UNCHANGED <<mode, tickers, fetched, err, fs>>

\* mutant: the handler logs the error and leaves the loop
Except_Abort ==
    /\ mode = "garch" /\ pc = "except"
    /\ out' = Append(out, Line("Error", T, err))
    /\ err' = None
    /\ k' = 0
    /\ calls' = <<>>
    /\ obs' = <<>>
    /\ i' = i + 1
    /\ pc' = "exit"
    /\ UNCHANGED <<mode, tickers, fetched, df, results, cmp_table,
                   best_name, best_res, fs>>

\* lines 211-212: except Exception as e: print(f"[Error] {t}: {e}")
Except ==
    /\ mode = "garch" /\ pc = "except"
    /\ out' = Append(out, Line("Error", T, err))
    /\ err' = None
    /\ k' = 0
    /\ calls' = <<>>
    /\ obs' = <<>>
    /\ i' = i + 1
    /\ pc' = "main"
    /\ UNCHANGED <<mode, tickers, fetched, df, results, cmp_table,
                   best_name, best_res, fs>>

\* line 208: the list is exhausted, main returns
MainExit ==
    /\ mode = "garch" /\ pc = "main" /\ i > Len(tickers)
    /\ pc' = "exit"
    /\ UNCHANGED <<mode, tickers, i, fetched, df, results, k, cmp_table,
                   best_name, best_res, err, fs, out, calls, obs>>

-----------------------------------------------------------------------------
(* resid_diagnostics.py, run once crypto_garch_analysis.py has finished *)

RESID_OUT_DIR == "results/figs"

resid_acf_path(t) == <<RESID_OUT_DIR, t, <<"_resid_acf.png">>>>
resid2_acf_path(t) == <<RESID_OUT_DIR, t, <<"_resid2_acf.png">>>>

\* fit_best_model, lines 33-37: the model is chosen by the ticker's name
hardcoded_model(t) == IF t = "BTC-USD" THEN GJR ELSE EGARCH

\* an exception nobody catches ends the script
Crash ==
    /\ pc' = "crashed"
    /\ err' = [type |-> LibError.type, text |-> LibError.text,
               args |-> LibError.args, at |-> pc]
    /\ NoLocals

\* a new process: python resid_diagnostics.py, with its own TICKERS (line 14)
RStart ==
    /\ mode = "garch" /\ pc = "exit"
    /\ mode' = "resid"
    /\ tickers' = TICKERS
    /\ i' = 1
    /\ pc' = "main"
    /\ out' = <<>>
    /\ UNCHANGED <<fetched, df, results, k, cmp_table, best_name, best_res,
                   err, fs, calls, obs>>

\* line 67
RMain ==
    /\ mode = "resid" /\ pc = "main" /\ i <= Len(tickers)
    /\ pc' = "load"
    /\ UNCHANGED <<mode, tickers, i, fetched, df, results, k, cmp_table,
                   best_name, best_res, err, fs, out, calls, obs>>

\* download_logreturns, lines 23-28: no check of the table; selecting a
\* column that is not there raises
RLoad ==
    /\ mode = "resid" /\ pc = "load"
    /\ \E tbl \in DriverTables :
         \/ /\ price_col(tbl) \in tbl.cols
            /\ df' = DropNa(WithLogReturn(Column(tbl, price_col(tbl))))
            /\ pc' = "fit"
            /\ UNCHANGED <<results, k, cmp_table, best_name, best_res, err>>
         \/ /\ price_col(tbl) \notin tbl.cols
            /\ Crash
    /\ UNCHANGED <<mode, tickers, i, fetched, fs, out, calls, obs>>

\* fit_best_model, lines 33-39
RFit ==
    /\ mode = "resid" /\ pc = "fit"
    /\ \/ \E res \in FitResults(hardcoded_model(T)) :
            /\ best_res' = res
            /\ pc' = "plot"
            /\ UNCHANGED <<df, results, k, cmp_table, best_name, err>>
       \/ Crash
    /\ UNCHANGED <<mode, tickers, i, fetched, fs, out, calls, obs>>

\* plot_resid_acf, lines 44-61, and line 71
RPlot ==
    /\ mode = "resid" /\ pc = "plot"
    /\ \/ /\ fs' = Write(Write(fs, File(resid_acf_path(T), "resid_acf", <<best_res.model>>)),
                         File(resid2_acf_path(T), "resid2_acf", <<best_res.model>>))
          /\ out' = Append(out, Line("SavedResid", T, None))
          /\ NoLocals
          /\ i' = i + 1
          /\ pc' = "main"
          /\ UNCHANGED err
       \/ /\ Crash
          /\ UNCHANGED <<fs, out, i>>
    /\ UNCHANGED <<mode, tickers, fetched, calls, obs>>

\* line 67: the list is exhausted
RExit ==
    /\ mode = "resid" /\ pc = "main" /\ i > Len(tickers)
    /\ pc' = "exit"
    /\ UNCHANGED <<mode, tickers, i, fetched, df, results, k, cmp_table,
                   best_name, best_res, err, fs, out, calls, obs>>

Next ==
    \/ MainNext
    \/ Load
    \/ Desc
    \/ Acf
    \/ FitGARCH
    \/ FitEGARCH
    \/ FitGJR
    \/ Summ
    \/ Cmp
    \/ Diag
    \/ Vol
    \/ Done
    \/ Except
    \/ MainExit
    \/ RStart
    \/ RMain
    \/ RLoad
    \/ RFit
    \/ RPlot
    \/ RExit

Spec == Init /\ [][Next]_vars


\* The driver runs to completion: every step returns or raises.
FairSpec == Spec /\ WF_vars(Next)

-----------------------------------------------------------------------------
(* download_prices on its own: any ticker, any table the source may return *)

Idle ==
    /\ i = 1
    /\ df = None
    /\ k = 0
    /\ cmp_table = <<>>
    /\ best_name = None
    /\ best_res = None
    /\ err = None
    /\ fs = {}
    /\ out = <<>>
    /\ calls = <<>>
    /\ obs = <<>>

InitLoader ==
    /\ mode = "loader"
    /\ tickers \in {<<t>> : t \in Range(TICKERS)}
    /\ \E cs \in SUBSET ColNames, n \in 0..MaxRows :
          \E a \in (IF "Adj Close" \in cs THEN PriceSeqs(n) ELSE {Filler(n)}),
             c \in (IF "Close" \in cs THEN PriceSeqs(n) ELSE {Filler(n)}) :
              fetched = Table(cs, n, a, c)
    /\ pc = "call"
    /\ results = <<>>
    /\ Idle

\* df = download_prices(ticker, START_DATE, END_DATE) on the fetched table
LoaderCall ==
    /\ mode = "loader" /\ pc = "call"
    /\ LET r == download_prices(T, fetched)
       IN  \/ /\ r.ok
              /\ df' = r.df
              /\ pc' = "returned"
              /\ UNCHANGED err
           \/ /\ ~r.ok
              /\ err' = [type |-> r.err.type, text |-> r.err.text,
                         args |-> r.err.args, at |-> "load"]
              /\ pc' = "raised"
              /\ UNCHANGED df
    /\ UNCHANGED <<mode, tickers, i, fetched, results, k, cmp_table,
                   best_name, best_res, fs, out, calls, obs>>

NextLoader == LoaderCall

SpecLoader == InitLoader /\ [][NextLoader]_vars

-----------------------------------------------------------------------------
(* model_comparison_table and the winner lookup on their own *)

ModelNames == Range(FitOrder)

\* the insertion orders of a non-empty dict keyed by distinct model names
KeyOrders ==
    {<<a>> : a \in ModelNames}
    \cup {o \in {<<a, b>> : a \in ModelNames, b \in ModelNames} : o[1] # o[2]}
    \cup {o \in {<<a, b, c>> : a \in ModelNames, b \in ModelNames, c \in ModelNames} :
            o[1] # o[2] /\ o[1] # o[3] /\ o[2] # o[3]}

\* the dict with keys o (in this insertion order) and the given AICs and BICs
Mapping(o, a, b) ==
    [j \in 1..Len(o) |->
        [name |-> o[j],
         res |-> [model |-> o[j], aic |-> a[j], bic |-> b[j], conv |-> TRUE]]]

InitSelect ==
    /\ mode = "select"
    /\ tickers = TICKERS
    /\ fetched = None
    /\ pc = "table"
    /\ \E o \in KeyOrders :
          \E a \in [1..Len(o) -> 1..SelMaxIC], b \in [1..Len(o) -> 1..SelMaxIC] :
              results = Mapping(o, a, b)
    /\ Idle

\* cmp_table = model_comparison_table(results), line 183
SelTable ==
    /\ mode = "select" /\ pc = "table"
    /\ cmp_table' = model_comparison_table(results)
    /\ pc' = "best"
    /\ UNCHANGED <<mode, tickers, i, fetched, df, results, k, best_name,
                   best_res, err, fs, out, calls, obs>>

\* best_name = cmp_table.iloc[0]["Model"]; best_res = results[best_name], lines 192-193
SelBest ==
    /\ mode = "select" /\ pc = "best"
    /\ best_name' = cmp_table[1].Model
    /\ best_res' = DictGet(results, best_name')
    /\ pc' = "chosen"
    /\ UNCHANGED <<mode, tickers, i, fetched, df, results, k, cmp_table,
                   err, fs, out, calls, obs>>

NextSelect == SelTable \/ SelBest

SpecSelect == InitSelect /\ [][NextSelect]_vars

-----------------------------------------------------------------------------
(* Reading stdout and the results directory *)

InGarch == mode = "garch"

IsBanner(l) == l.tag = "Ticker"
IsEnd(l) == l.tag \in {"Done", "Error"}
IsSaved(l) == l.tag = "Saved"

TickersOf(ls) == [j \in 1..Len(ls) |-> ls[j].ticker]

\* the tickers run_for_ticker was started on, in order
Started == TickersOf(SelectSeq(out, IsBanner))

\* the runs that have ended, in order, each with how it ended
Ended == SelectSeq(out, IsEnd)

\* the paths the current run has reported as saved, in order
CurrentSaved ==
    LET banners == {j \in 1..Len(out) : IsBanner(out[j])}
        last == CHOOSE j \in banners : \A h \in banners : h <= j
        mine == SelectSeq(SubSeq(out, last + 1, Len(out)), IsSaved)
    IN  [j \in 1..Len(mine) |-> mine[j].what]

FilesOf(t) == {f \in fs : PathTicker(f.path) = t}

\* the step of run_for_ticker an error was raised in / a file is the artifact of
StepNo(at) ==
    CASE at = "load" -> 1
      [] at = "desc" -> 2
      [] at = "acf" -> 3
      [] at = "fit" -> 4
      [] at \in {"summ", "summary"} -> 5
      [] at = "cmp" -> 6
      [] at = "diag" -> 7
      [] at = "vol" -> 8

\* (a, b) no worse than (c, d): lower AIC, or equal AIC and no higher BIC
NoWorse(x, y) == x.aic < y.aic \/ (x.aic = y.aic /\ x.bic <= y.bic)

-----------------------------------------------------------------------------
(* C1 *)

Terminated == ~(InGarch /\ pc # "exit")

C1Inv ==
    InGarch =>
        /\ i \in 1..(Len(tickers) + 1)
        /\ Started = SubSeq(tickers, 1, IF pc \in {"main", "exit"} THEN i - 1 ELSE i)
        /\ TickersOf(Ended) = SubSeq(tickers, 1, i - 1)
        /\ \A j \in 1..Len(Ended) :
              Ended[j].tag = "Error" =>
                  /\ Ended[j].what.text # ""
                  /\ Ended[j].what.at \in {"load", "desc", "acf", "fit", "summ", "cmp", "diag", "vol"}
        /\ pc = "except" => err # None
        /\ pc = "exit" => Started = tickers /\ Len(Ended) = Len(tickers)

\* C1: main starts run_for_ticker exactly once per ticker, in list order,
\* whatever fails inside the runs; an error ends only its own run, is logged
\* with its ticker and message, and the driver terminates.
C1_EveryTickerRunOnce == []C1Inv /\ <>Terminated

\* the first ticker's run failed, the second one was still started, main returned
C1_Witness ==
    /\ InGarch /\ pc = "exit" /\ Len(tickers) = 2
    /\ Ended[1].tag = "Error"
    /\ Started = tickers

-----------------------------------------------------------------------------
(* C2 *)

\* C2: a failed fit of one spec does not keep the other specs from being
\* fitted in the same run: when a run ends on a fit error, fit was called for
\* all three specs.
C2_IndependentFitFailures ==
    (InGarch /\ pc = "except" /\ err.at = "fit") => Range(calls) = ModelNames

-----------------------------------------------------------------------------
(* C3 *)

C3Sorted(tbl) ==
    \A j \in 1..(Len(tbl) - 1) :
        \/ tbl[j].AIC < tbl[j + 1].AIC
        \/ tbl[j].AIC = tbl[j + 1].AIC /\ tbl[j].BIC <= tbl[j + 1].BIC

C3OneRowPerModel(tbl, d) ==
    /\ Len(tbl) = Len(d)
    /\ \A e \in Range(d) :
          Cardinality({j \in 1..Len(tbl) : tbl[j].Model = e.name}) = 1
    /\ \A j \in 1..Len(tbl) :
          \E e \in Range(d) :
              tbl[j] = [Model |-> e.name, AIC |-> e.res.aic, BIC |-> e.res.bic]

\* C3: the comparison table has one row per model, ascending by AIC and, among
\* equal AICs, ascending by BIC; the winner looked up from its first row has
\* the minimum AIC and, among the models with that AIC, the minimum BIC.
C3_TableSortedWinnerMinimal ==
    /\ (mode = "select" /\ pc \in {"best", "chosen"}) =>
          /\ C3OneRowPerModel(cmp_table, results)
          /\ C3Sorted(cmp_table)
    /\ (mode = "select" /\ pc = "chosen") =>
          /\ \E e \in Range(results) : e.name = best_name /\ e.res = best_res
          /\ \A e \in Range(results) : NoWorse(best_res, e.res)

\* three models, the first and the last inserted tie on AIC, and the last
\* inserted wins on BIC
C3_Witness ==
    /\ mode = "select" /\ pc = "chosen" /\ Len(results) = 3
    /\ results[1].res.aic = results[3].res.aic
    /\ results[3].res.bic < results[1].res.bic
    /\ results[2].res.aic > results[3].res.aic
    /\ best_name = results[3].name

-----------------------------------------------------------------------------
(* C4 *)

\* C4: whenever residual diagnostics are computed for a ticker, the model
\* diagnosed is the AIC-selected winner of that ticker's comparison table
\* (never one picked by the ticker's name).
C4_DiagnosticsOnlyOnWinner ==
    /\ (InGarch /\ pc \in {"vol", "done"}) =>
          /\ best_res = DictGet(results, cmp_table[1].Model)
          /\ \A e \in Range(results) : NoWorse(best_res, e.res)
    /\ (mode = "resid" /\ pc = "plot") =>
          \A f \in fs : f.path = cmp_path(T) => best_res.model = f.data[1]

-----------------------------------------------------------------------------
(* C5 *)

C5Selected(tbl) == IF "Adj Close" \in tbl.cols THEN tbl.adj ELSE tbl.close

C5Common(withRange) ==
    (mode = "loader" /\ pc # "call") =>
        /\ IsEmpty(fetched) =>
              /\ pc = "raised" /\ err.type = "RuntimeError"
              /\ T \in err.args
              /\ withRange => {START_DATE, END_DATE} \subseteq err.args
        /\ (~IsEmpty(fetched) /\ fetched.cols \cap {"Adj Close", "Close"} = {}) =>
              pc = "raised" /\ err.type = "KeyError"
        /\ (~IsEmpty(fetched) /\ fetched.cols \cap {"Adj Close", "Close"} # {}) =>
              /\ pc = "returned"
              /\ \A j \in 1..Len(df) : df[j].Price = C5Selected(fetched)[df[j].date]
        /\ pc = "raised" => df = None

\* C5 as stated: the error for an empty table identifies the ticker and the
\* date range.
C5_LoaderErrors_Original == C5Common(TRUE)

\* C5 amended: the error for an empty table is a RuntimeError naming the
\* ticker (and nothing else); a table with neither price column raises a
\* KeyError; otherwise the adjusted close is used when present, else the raw
\* close; no return series on failure.
C5_LoaderErrors ==
    /\ C5Common(FALSE)
    /\ (mode = "loader" /\ pc = "raised" /\ IsEmpty(fetched)) => err.args = {T}

\* both price columns present and different: the series is the adjusted one
C5_Witness ==
    /\ mode = "loader" /\ pc = "returned"
    /\ {"Adj Close", "Close"} \subseteq fetched.cols
    /\ fetched.n = 2 /\ fetched.adj = <<1, 2>> /\ fetched.close = <<2, 2>>
    /\ Len(df) = 1 /\ df[1].Price = 2 /\ df[1].LogReturn = <<2, 1>>

-----------------------------------------------------------------------------
(* C8 *)

\* C8 as stated: n prices give exactly n-1 returns, the j-th being the log
\* ratio of price j+1 to price j, in date order.
C8_ReturnSeries_Original ==
    (mode = "loader" /\ pc = "returned") =>
        LET price == C5Selected(fetched)
        IN  /\ Len(df) = fetched.n - 1
            /\ \A j \in 1..Len(df) :
                  df[j].date = j + 1 /\ df[j].LogReturn = <<price[j + 1], price[j]>>

\* C8 amended: the return series holds, in date order, the log ratio of
\* price j to price j-1 for exactly the dates j >= 2 at which both prices are
\* present; it has n-1 observations when no price is missing.
C8_ReturnSeries ==
    (mode = "loader" /\ pc = "returned") =>
        LET price == C5Selected(fetched)
            n == fetched.n
            keep == {j \in 2..n : price[j] # NaN /\ price[j - 1] # NaN}
        IN  /\ {df[a].date : a \in 1..Len(df)} = keep
            /\ Len(df) = Cardinality(keep)
            /\ \A a \in 1..(Len(df) - 1) : df[a].date < df[a + 1].date
            /\ \A a \in 1..Len(df) :
                  /\ df[a].Price = price[df[a].date]
                  /\ df[a].LogReturn = <<price[df[a].date], price[df[a].date - 1]>>
            /\ (\A j \in 1..n : price[j] # NaN) =>
                  /\ Len(df) = n - 1
                  /\ \A a \in 1..Len(df) : df[a].date = a + 1

\* three quotes, none missing: two returns
C8_Witness ==
    /\ mode = "loader" /\ pc = "returned"
    /\ fetched.cols = {"Close"} /\ fetched.close = <<1, 2, 1>>
    /\ Len(df) = 2
    /\ df[1].LogReturn = <<2, 1>> /\ df[2].LogReturn = <<1, 2>>

-----------------------------------------------------------------------------
(* C6 *)

C6CompletedRemain(s) ==
    /\ s > 2 => \E f \in fs : f.path = desc_path(T)
    /\ s > 3 => \E f \in fs : f.path = acf_path(T)
    /\ s > 5 => \A n \in ModelNames : \E f \in fs : f.path = log_path(T, n)
    /\ s > 6 => \E f \in fs : f.path = cmp_path(T)
    /\ s > 7 => \E f \in fs : f.path = diag_path(T)

-----------------------------------------------------------------------------
(* C7 *)

\* C7: a fit that did not converge is never accepted as a fitted model: no
\* result held by the run, no row of the comparison table and no winner comes
\* from a non-converged fit.
C7_NoUnconvergedModelAccepted ==
    InGarch =>
        /\ \A e \in Range(results) : e.res.conv
        /\ \A j \in 1..Len(cmp_table) : DictGet(results, cmp_table[j].Model).conv
        /\ best_res # None => best_res.conv

-----------------------------------------------------------------------------
(* C9 *)

C9Expected(t, winner) ==
    <<desc_path(t), acf_path(t),
      log_path(t, GARCH), log_path(t, EGARCH), log_path(t, GJR),
      cmp_path(t), diag_path(t), vol_path(t, winner)>>

\* C9: a run that completes has written, each once and in this order, the
\* statistics table, the ACF figure, one summary per fitted model (three, at
\* distinct paths), the comparison table, the diagnostics table and the
\* volatility figure; no summary is written before all three models are fitted.
C9_ArtifactsOfACompletedRun ==
    (InGarch /\ Running) =>
        /\ (\E j \in 1..Len(CurrentSaved) : CurrentSaved[j][1] = LOG_DIR) =>
              calls = FitOrder /\ Len(obs) = 3
        /\ pc = "done" =>
              /\ best_name \in ModelNames
              /\ CurrentSaved = C9Expected(T, best_name)
              /\ Cardinality(Range(CurrentSaved)) = 8
              /\ Paths(FilesOf(T)) = Range(CurrentSaved)
              /\ Cardinality(FilesOf(T)) = 8

\* the second ticker of the list completes
C9_Witness ==
    /\ InGarch /\ pc = "done" /\ i = 2
    /\ Len(CurrentSaved) = 8
    /\ best_name = EGARCH

-----------------------------------------------------------------------------
(* C10 *)

\* The files a run for ticker t leaves, from what this run alone was given:
\* the step it failed at (9: none), the loop position there, the fits returned.
C10Expected(t, s, kk, o) ==
    LET d == [j \in 1..Len(o) |-> [name |-> o[j].model, res |-> o[j]]]
        tbl == model_comparison_table(d)
        nsum == IF s > 5 THEN 3 ELSE IF s = 5 THEN kk - 1 ELSE 0
    IN  (IF s > 2 THEN {File(desc_path(t), "desc", <<>>)} ELSE {})
        \cup (IF s > 3 THEN {File(acf_path(t), "acf", <<>>)} ELSE {})
        \cup {File(log_path(t, o[j].model), "summary", <<o[j].model>>) : j \in 1..nsum}
        \cup (IF s > 6 THEN {File(cmp_path(t), "cmp", ModelColumn(tbl))} ELSE {})
        \cup (IF s > 7 THEN {File(diag_path(t), "diag", <<tbl[1].Model>>)} ELSE {})
        \cup (IF s > 8 THEN {File(vol_path(t, tbl[1].Model), "vol", <<tbl[1].Model>>)} ELSE {})

C10Determined ==
    (InGarch /\ pc \in {"done", "except"}) =>
        /\ FilesOf(T) = C10Expected(T, IF pc = "done" THEN 9 ELSE StepNo(err.at), k, obs)
        /\ pc = "done" => best_res = obs[CHOOSE j \in 1..3 : obs[j].model = best_name]
        /\ pc = "done" => \A j \in 1..3 : NoWorse(best_res, obs[j])

C10Frame ==
    fs' # fs =>
        /\ \A f \in fs' \ fs : PathTicker(f.path) = T
        /\ \A f \in fs \ fs' : PathTicker(f.path) = T

\* C10: the outcome of a ticker's run (how it ends, its winner, its artifacts
\* and their content) depends only on what that run itself was given, whatever
\* ran before it; and a run writes only paths holding its own ticker, leaving
\* every other ticker's artifacts as they were.
C10_NoSharedState == []C10Determined /\ [][C10Frame]_vars

\* the second ticker completes after the first failed half-way
C10_Witness ==
    /\ InGarch /\ pc = "done" /\ i = 2
    /\ Ended[1].tag = "Error"
    /\ FilesOf(tickers[1]) # {}
    /\ Cardinality(FilesOf(tickers[2])) = 8

=============================================================================
